---- MODULE Spec2Model ----
(***************************************************************************)
(* Two Lambda handlers that drive RDS snapshot exports.                    *)
(*   Handler A (StartExportTask for an existing snapshot ARN)              *)
(*   Handler B (create cluster snapshot, wait until available, export)     *)
(* Strings are sequences of one-character strings, so that formatting and  *)
(* the regular-expression replace are computed character by character.     *)
(* A JavaScript value that may be undefined is [def, s]: def = FALSE is    *)
(* undefined, otherwise s is the string.                                   *)
(***************************************************************************)
EXTENDS Integers, Sequences, FiniteSets, TLC

\* ------------------------------------------------------------------ bounds
NumInv == 2          \* invocations that may run (concurrently or in sequence)
MaxTicks == 1        \* times the wall clock advances during a behaviour
MaxMissing == 1      \* environment variables left unset in a configuration
MaxEnvChanges == 1   \* environment variables reassigned while the process lives

\* ------------------------------------------------------- program constants
MaxWaitTime == 600   \* waiter ceiling in seconds (maxWaitTime)
PollDelay == 300     \* seconds the waiter sleeps between two polls

Invs == 1..NumInv

\* ----------------------------------------------------------------- values
Undefined == [def |-> FALSE, s |-> <<>>]
Str(s) == [def |-> TRUE, s |-> s]

\* JavaScript `x || ''`: undefined and the empty string both give ''.
OrEmpty(v) == IF v.def /\ v.s # <<>> THEN v ELSE Str(<<>>)

\* A value inside a template literal: `${undefined}` is "undefined".
Interp(v) == IF v.def THEN v.s ELSE <<"u","n","d","e","f","i","n","e","d">>

DigitChars == <<"0","1","2","3","4","5","6","7","8","9">>
IsDigit(c) == \E k \in 1..10 : DigitChars[k] = c

\* Decimal rendering of a natural number (Number -> String).
RECURSIVE Decimal(_)
Decimal(n) == IF n < 10 THEN <<DigitChars[n + 1]>>
              ELSE Decimal(n \div 10) \o <<DigitChars[(n % 10) + 1]>>

\* Zero padding to width w, as toISOString pads its fields.
RECURSIVE Pad(_, _)
Pad(n, w) == IF w <= 1 THEN Decimal(n)
             ELSE IF Len(Decimal(n)) >= w THEN Decimal(n)
             ELSE <<"0">> \o Pad(n, w - 1)

\* ------------------------------------------------------------------ clock
\* The wall clock is [sec, ms]: whole seconds since the epoch and the
\* millisecond within the second (the epoch in ms does not fit 32 bits).
StartClocks == { [sec |-> 1736985599, ms |-> 999],   \* 2025-01-15T23:59:59.999Z
                 [sec |-> 1709164800, ms |-> 0] }    \* 2024-02-29T00:00:00.000Z

\* Civil date of a day number (days since 1970-01-01), proleptic Gregorian.
CivilFromDays(days) ==
  LET z == days + 719468
      era == z \div 146097
      doe == z - era * 146097
      yoe == (doe - doe \div 1460 + doe \div 36524 - doe \div 146096) \div 365
      doy == doe - (365 * yoe + yoe \div 4 - yoe \div 100)
      mp == (5 * doy + 2) \div 153
      d == doy - (153 * mp + 2) \div 5 + 1
      m == IF mp < 10 THEN mp + 3 ELSE mp - 9
      y == yoe + era * 400 + (IF m <= 2 THEN 1 ELSE 0)
  IN [year |-> y, month |-> m, day |-> d]

\* Date.prototype.toISOString: YYYY-MM-DDTHH:mm:ss.sssZ
ToISOString(t) ==
  LET c == CivilFromDays(t.sec \div 86400)
      sod == t.sec % 86400
  IN Pad(c.year, 4) \o <<"-">> \o Pad(c.month, 2) \o <<"-">> \o Pad(c.day, 2)
     \o <<"T">> \o Pad(sod \div 3600, 2) \o <<":">> \o Pad((sod % 3600) \div 60, 2)
     \o <<":">> \o Pad(sod % 60, 2) \o <<".">> \o Pad(t.ms, 3) \o <<"Z">>

\* Date.now() rendered in a template literal: the epoch in milliseconds.
DateNowStr(t) == IF t.sec = 0 THEN Decimal(t.ms) ELSE Decimal(t.sec) \o Pad(t.ms, 3)

\* String.prototype.replace(/[-T:.Z]/g, '')
StripChars == {"-", "T", ":", ".", "Z"}
IsStrippedNoDot(c) == c \in StripChars \ {"."}
IsStripped(c) == c \in StripChars
StripPunct(s) == SelectSeq(s, LAMBDA c : ~IsStripped(c))

SnapshotPrefix == <<"s","n","a","p","s","h","o","t">>
ExportInfix == <<"-","e","x","p","o","r","t","-">>

\* Handler A: `snapshot${new Date().toISOString().replace(/[-T:.Z]/g, '')}`
TaskIdA(t) == SnapshotPrefix \o StripPunct(ToISOString(t))

\* Handler B: `${snapshotName}-export-${Date.now()}`
TaskIdB(snapshotName, t) == Interp(snapshotName) \o ExportInfix \o DateNowStr(t)

\* ------------------------------------------------------------ environment
EnvNames == {"SOURCE_ARN", "DB_CLUSTER_IDENTIFIER", "SNAPSHOT_NAME",
             "S3_BUCKET_NAME", "IAM_ROLE_ARN", "KMS_KEY_ID"}

EnvValue(n) == CASE n = "SOURCE_ARN" -> <<"a","r","n">>
                 [] n = "DB_CLUSTER_IDENTIFIER" -> <<"c","l">>
                 [] n = "SNAPSHOT_NAME" -> <<"s","1">>
                 [] n = "S3_BUCKET_NAME" -> <<"b">>
                 [] n = "IAM_ROLE_ARN" -> <<"r">>
                 [] n = "KMS_KEY_ID" -> <<"k">>

\* The value a variable gets when the process reassigns it.
EnvValue2(n) == EnvValue(n) \o <<"2">>

\* process.env of a deployment: every variable set, or up to MaxMissing unset.
Envs == { [n \in EnvNames |-> IF n \in miss THEN Undefined ELSE Str(EnvValue(n))] :
            miss \in { m \in SUBSET EnvNames : Cardinality(m) <= MaxMissing } }

VARIABLES
  env,        \* process.env
  modA,       \* Handler A's module-level constants, set when the module loads
  now,        \* wall clock
  ticks,      \* clock advances so far
  kind,       \* kind[i]: which handler invocation i runs ("none" before it starts)
  pc,         \* pc[i]: the await at which invocation i is suspended
  loc,        \* loc[i]: Handler B's local constants read from process.env
  taskId,     \* taskId[i]: the ExportTaskIdentifier the invocation generated
  waited,     \* waited[i]: seconds the waiter of invocation i has slept
  trace,      \* trace[i]: downstream requests and their answers, in order
  result,     \* result[i]: what the invocation returned (or threw)
  snapshots,  \* external service: cluster snapshots, with their status
  exportTasks \* external service: identifiers of the accepted export tasks

vars == <<env, modA, now, ticks, kind, pc, loc, taskId, waited, trace, result,
          snapshots, exportTasks>>

NoModule == [loaded |-> FALSE, SourceArn |-> Undefined, S3BucketName |-> Undefined,
             IamRoleArn |-> Undefined, KmsKeyId |-> Undefined]
NoLocals == [dbClusterIdentifier |-> Undefined, snapshotName |-> Undefined,
             s3BucketName |-> Undefined, exportIamRoleArn |-> Undefined,
             kmsKeyId |-> Undefined]
NoResult == [kind |-> "none", statusCode |-> 0, body |-> <<>>]

\* JSON.stringify of a plain object: members whose value is undefined are
\* left out of the text; the others appear with their string value.
JSONstringify(o) == [k \in {x \in DOMAIN o : o[x].def} |-> o[k].s]

\* An event of an invocation's trace: a request sent (with its input), or
\* its answer (an export acknowledgement with the service's output).
Ev(op, ev, req) == [op |-> op, ev |-> ev, req |-> req]
NoReq == <<>>

\* ------------------------------------------------------- external service
Err(name) == [name |-> name, message |-> <<name>>]

Present(v) == v.def /\ v.s # <<>>

\* Answers the control plane can give to CreateDBClusterSnapshot when the
\* snapshots `snaps` exist.
CreateAnswers(snaps, req) ==
  IF ~Present(req.DBClusterIdentifier) \/ ~Present(req.DBClusterSnapshotIdentifier)
    THEN {[ok |-> FALSE, error |-> Err("InvalidParameterValue")]}
  ELSE IF \E s \in snaps : s.id = req.DBClusterSnapshotIdentifier.s
    THEN {[ok |-> FALSE, error |-> Err("DBClusterSnapshotAlreadyExistsFault")]}
  ELSE {[ok |-> TRUE, error |-> Err("none")],
        [ok |-> FALSE, error |-> Err("ServiceUnavailable")]}

\* Answers the control plane can give to an export request with identifier
\* id and source src when the export tasks `tasks` exist: the acknowledgement echoes the identifier or leaves
\* the optional member out.
ExportAnswers(tasks, id, src, bucket, role) ==
  IF ~Present(src) \/ ~Present(bucket) \/ ~Present(role)
    THEN {[ok |-> FALSE, error |-> Err("InvalidParameterValue"), echo |-> Undefined]}
  ELSE IF id.s \in tasks
    THEN {[ok |-> FALSE, error |-> Err("ExportTaskAlreadyExists"), echo |-> Undefined]}
  ELSE {[ok |-> TRUE, error |-> Err("none"), echo |-> id],
        [ok |-> TRUE, error |-> Err("none"), echo |-> Undefined],
        [ok |-> FALSE, error |-> Err("ServiceUnavailable"), echo |-> Undefined]}

\* One poll of waitUntilDBClusterSnapshotAvailable after `slept` seconds.
WaiterStates(name, slept) ==
  IF \E s \in snapshots : s.id = Interp(name) /\ s.status = "available"
    THEN {"SUCCESS", "FAILURE"}
  ELSE IF slept + PollDelay > MaxWaitTime THEN {"TIMEOUT", "FAILURE"}
  ELSE {"RETRY", "FAILURE"}

\* The service's state after the requests of `evs` (a delete removes).
Deleted(evs) == { evs[k].req.DBClusterSnapshotIdentifier.s :
                    k \in { j \in 1..Len(evs) : evs[j].op = "DeleteDBClusterSnapshot" } }

\* Invocations are numbered in their order of arrival.
Arrives(i) == pc[i] = "idle" /\ \A j \in Invs : j < i => pc[j] # "idle"

\* -------------------------------------------------------------- Handler A
\* Module load: the four constants are read from process.env once.
LoadModuleA ==
  /\ ~modA.loaded
  /\ modA' = [loaded |-> TRUE,
              SourceArn |-> OrEmpty(env["SOURCE_ARN"]),
              S3BucketName |-> OrEmpty(env["S3_BUCKET_NAME"]),
              IamRoleArn |-> OrEmpty(env["IAM_ROLE_ARN"]),
              KmsKeyId |-> OrEmpty(env["KMS_KEY_ID"])]
  /\ UNCHANGED <<env, now, ticks, kind, pc, loc, taskId, waited, trace, result,
                 snapshots, exportTasks>>

\* StartExportTaskCommandInput built by Handler A.
ParamsA(id) == [ExportTaskIdentifier |-> Str(id),
                SourceArn |-> modA.SourceArn,
                S3BucketName |-> modA.S3BucketName,
                IamRoleArn |-> modA.IamRoleArn,
                KmsKeyId |-> modA.KmsKeyId]

\* The requests Handler A issues for one invocation.
SendsATwice(id) == <<Ev("StartExportTask", "send", ParamsA(id)),
                     Ev("StartExportTask", "send", ParamsA(id))>>
SendsA(id) == <<Ev("StartExportTask", "send", ParamsA(id))>>

\* Handler A's return value when the call resolves.
Return200A(id) ==
  [kind |-> "returned", statusCode |-> 200,
   body |-> JSONstringify([message |-> Str(<<"Export task started successfully">>),
                           exportTaskIdentifier |-> Str(id)])]

\* Handler A's catch block: the error object is serialised into the body
\* (rendered here by its name).
CatchARethrows(error) == [kind |-> "threw", statusCode |-> 0, body |-> <<>>]
CatchA(error) ==
  [kind |-> "returned", statusCode |-> 500,
   body |-> JSONstringify([message |-> Str(<<"Failed to start export task">>),
                           error |-> Str(<<error.name>>)])]

\* Invocation i enters Handler A and runs to its await.
InvokeA(i) ==
  /\ Arrives(i)
  /\ modA.loaded
  /\ kind' = [kind EXCEPT ![i] = "A"]
  /\ taskId' = [taskId EXCEPT ![i] = TaskIdA(now)]
  /\ trace' = [trace EXCEPT ![i] = @ \o SendsA(TaskIdA(now))]
  /\ pc' = [pc EXCEPT ![i] = "exportSent"]
  /\ UNCHANGED <<env, modA, now, ticks, loc, waited, result, snapshots, exportTasks>>

\* The StartExportTask call of invocation i settles.
ReplyA(i) ==
  /\ pc[i] = "exportSent" /\ kind[i] = "A"
  /\ LET req == ParamsA(taskId[i]) IN
     \E a \in ExportAnswers(exportTasks, req.ExportTaskIdentifier, req.SourceArn,
                       req.S3BucketName, req.IamRoleArn) :
       /\ trace' = [trace EXCEPT ![i] =
                      @ \o <<Ev("StartExportTask", IF a.ok THEN "ack" ELSE "err", NoReq)>>]
       /\ exportTasks' = IF a.ok THEN exportTasks \cup {taskId[i]} ELSE exportTasks
       /\ result' = [result EXCEPT ![i] =
                       IF a.ok THEN Return200A(taskId[i]) ELSE CatchA(a.error)]
  /\ pc' = [pc EXCEPT ![i] = "done"]
  /\ UNCHANGED <<env, modA, now, ticks, kind, loc, taskId, waited, snapshots>>

\* -------------------------------------------------------------- Handler B
\* The five constants Handler B reads from process.env on entry.
ReadEnvB == [dbClusterIdentifier |-> env["DB_CLUSTER_IDENTIFIER"],
             snapshotName |-> env["SNAPSHOT_NAME"],
             s3BucketName |-> env["S3_BUCKET_NAME"],
             exportIamRoleArn |-> env["IAM_ROLE_ARN"],
             kmsKeyId |-> env["KMS_KEY_ID"]]

CreateSnapshotParams(l) == [DBClusterIdentifier |-> l.dbClusterIdentifier,
                            DBClusterSnapshotIdentifier |-> l.snapshotName]

\* ExportDBClusterSnapshotToS3CommandInput built by Handler B.
ExportParams(l, id) == [ExportTaskIdentifier |-> Str(id),
                        SourceDBClusterSnapshotIdentifier |-> l.snapshotName,
                        S3BucketName |-> l.s3BucketName,
                        IamRoleArn |-> l.exportIamRoleArn,
                        KmsKeyId |-> l.kmsKeyId]

\* Where control goes when the create call settles.
AfterCreateSwallows(ok) == "wait"
AfterCreate(ok) == IF ok THEN "wait" ELSE "catch"

\* Where control goes when the waiter settles: every final state other than
\* SUCCESS is thrown by the waiter.
AfterWaitIgnoresState(state) == "export"
AfterWait(state) == IF state = "SUCCESS" THEN "export" ELSE "catch"

\* Handler B's return value when the export call resolves.
Return200BDropsId(exportResult) ==
  [kind |-> "returned", statusCode |-> 200,
   body |-> JSONstringify(
              [message |-> Str(<<"Aurora snapshot export to S3 initiated successfully.">>)])]
Return200B(exportResult) ==
  [kind |-> "returned", statusCode |-> 200,
   body |-> JSONstringify(
              [message |-> Str(<<"Aurora snapshot export to S3 initiated successfully.">>),
               exportTaskIdentifier |-> exportResult.ExportTaskIdentifier])]

\* Handler B's catch block: its return value, and the requests it issues.
CatchB(error) ==
  [kind |-> "returned", statusCode |-> 500,
   body |-> JSONstringify(
              [message |-> Str(<<"Failed to create or export DB cluster snapshot.">>),
               error |-> Str(error.message)])]

CatchRequestsBRollback(l) ==
  <<Ev("DeleteDBClusterSnapshot", "send",
       [DBClusterSnapshotIdentifier |-> l.snapshotName])>>
CatchRequestsBRetry(l) ==
  <<Ev("CreateDBClusterSnapshot", "send", CreateSnapshotParams(l))>>
CatchRequestsB(l) == <<>>

\* Invocation i enters Handler B and runs to its first await.
InvokeB(i) ==
  /\ Arrives(i)
  /\ kind' = [kind EXCEPT ![i] = "B"]
  /\ loc' = [loc EXCEPT ![i] = ReadEnvB]
  /\ trace' = [trace EXCEPT ![i] =
                 @ \o <<Ev("CreateDBClusterSnapshot", "send", CreateSnapshotParams(ReadEnvB))>>]
  /\ pc' = [pc EXCEPT ![i] = "createSent"]
  /\ UNCHANGED <<env, modA, now, ticks, taskId, waited, result, snapshots, exportTasks>>

\* Handler B reaches its catch block with `error`, after the events `evs`.
Caught(i, evs, error, snaps) ==
  /\ trace' = [trace EXCEPT ![i] = @ \o evs \o CatchRequestsB(loc[i])]
  /\ snapshots' = { s \in snaps : s.id \notin Deleted(CatchRequestsB(loc[i])) }
  /\ result' = [result EXCEPT ![i] = CatchB(error)]
  /\ pc' = [pc EXCEPT ![i] = "done"]

\* The CreateDBClusterSnapshot call of invocation i settles.
CreateReply(i) ==
  /\ pc[i] = "createSent"
  /\ \E a \in CreateAnswers(snapshots, CreateSnapshotParams(loc[i])) :
       LET snaps == IF a.ok
                      THEN snapshots \cup {[id |-> Interp(loc[i].snapshotName),
                                            status |-> "creating"]}
                      ELSE snapshots
           ev == Ev("CreateDBClusterSnapshot", IF a.ok THEN "ack" ELSE "err", NoReq)
       IN IF AfterCreate(a.ok) = "wait"
            THEN /\ trace' = [trace EXCEPT ![i] =
                                @ \o <<ev, Ev("waitUntilDBClusterSnapshotAvailable", "send",
                                              CreateSnapshotParams(loc[i]))>>]
                 /\ snapshots' = snaps
                 /\ pc' = [pc EXCEPT ![i] = "waiting"]
                 /\ UNCHANGED result
            ELSE Caught(i, <<ev>>, a.error, snaps)
  /\ UNCHANGED <<env, modA, now, ticks, kind, loc, taskId, waited, exportTasks>>

\* The seconds slept once the waiter has slept through one more delay.
SleptAfterRestarts(slept) == IF slept = 0 THEN PollDelay ELSE 0
SleptAfter(slept) == slept + PollDelay

\* One poll of the waiter of invocation i.
WaitPoll(i) ==
  /\ pc[i] = "waiting"
  /\ \E st \in WaiterStates(loc[i].snapshotName, waited[i]) :
       IF st = "RETRY"
         THEN /\ waited' = [waited EXCEPT ![i] = SleptAfter(@)]
              /\ UNCHANGED <<taskId, trace, result, pc, snapshots>>
       ELSE IF AfterWait(st) = "export"
         THEN /\ taskId' = [taskId EXCEPT ![i] = TaskIdB(loc[i].snapshotName, now)]
              /\ trace' = [trace EXCEPT ![i] =
                   @ \o <<Ev("waitUntilDBClusterSnapshotAvailable",
                             IF st = "SUCCESS" THEN "ack" ELSE "err", NoReq),
                          Ev("ExportDBClusterSnapshotToS3", "send",
                             ExportParams(loc[i], TaskIdB(loc[i].snapshotName, now)))>>]
              /\ pc' = [pc EXCEPT ![i] = "exportSent"]
              /\ UNCHANGED <<waited, result, snapshots>>
       ELSE /\ Caught(i, <<Ev("waitUntilDBClusterSnapshotAvailable", "err", NoReq)>>,
                      Err(st), snapshots)
            /\ UNCHANGED <<waited, taskId>>
  /\ UNCHANGED <<env, modA, now, ticks, kind, loc, exportTasks>>

\* The ExportDBClusterSnapshotToS3 call of invocation i settles.
ExportReply(i) ==
  /\ pc[i] = "exportSent" /\ kind[i] = "B"
  /\ LET req == ExportParams(loc[i], taskId[i]) IN
     \E a \in ExportAnswers(exportTasks, req.ExportTaskIdentifier, 
                       req.SourceDBClusterSnapshotIdentifier,
                       req.S3BucketName, req.IamRoleArn) :
       IF a.ok
         THEN /\ trace' = [trace EXCEPT ![i] =
                             @ \o <<Ev("ExportDBClusterSnapshotToS3", "ack",
                                       [ExportTaskIdentifier |-> a.echo])>>]
              /\ exportTasks' = exportTasks \cup {taskId[i]}
              /\ result' = [result EXCEPT ![i] =
                              Return200B([ExportTaskIdentifier |-> a.echo])]
              /\ pc' = [pc EXCEPT ![i] = "done"]
              /\ UNCHANGED snapshots
         ELSE /\ Caught(i, <<Ev("ExportDBClusterSnapshotToS3", "err", NoReq)>>,
                        a.error, snapshots)
              /\ UNCHANGED exportTasks
  /\ UNCHANGED <<env, modA, now, ticks, kind, loc, taskId, waited>>

\* ------------------------------------------------------------ environment
\* The external service finishes a snapshot.
SnapshotAvailable ==
  /\ \E s \in snapshots :
       /\ s.status = "creating"
       /\ snapshots' = (snapshots \ {s}) \cup {[s EXCEPT !.status = "available"]}
  /\ UNCHANGED <<env, modA, now, ticks, kind, pc, loc, taskId, waited, trace, result,
                 exportTasks>>

\* The wall clock advances by a millisecond or by a second.
Advance(t, d) == IF d = "ms"
                   THEN IF t.ms = 999 THEN [sec |-> t.sec + 1, ms |-> 0]
                        ELSE [sec |-> t.sec, ms |-> t.ms + 1]
                   ELSE [sec |-> t.sec + 1, ms |-> t.ms]

Tick ==
  /\ ticks < MaxTicks
  /\ \E d \in {"ms", "s"} : now' = Advance(now, d)
  /\ ticks' = ticks + 1
  /\ UNCHANGED <<env, modA, kind, pc, loc, taskId, waited, trace, result,
                 snapshots, exportTasks>>

Init ==
  /\ env \in Envs
  /\ modA = NoModule
  /\ now \in StartClocks
  /\ ticks = 0
  /\ kind = [i \in Invs |-> "none"]
  /\ pc = [i \in Invs |-> "idle"]
  /\ loc = [i \in Invs |-> NoLocals]
  /\ taskId = [i \in Invs |-> <<>>]
  /\ waited = [i \in Invs |-> 0]
  /\ trace = [i \in Invs |-> <<>>]
  /\ result = [i \in Invs |-> NoResult]
  /\ snapshots = {}
  /\ exportTasks = {}

Next ==
  \/ LoadModuleA
  \/ \E i \in Invs : InvokeA(i)
  \/ \E i \in Invs : ReplyA(i)
  \/ \E i \in Invs : InvokeB(i)
  \/ \E i \in Invs : CreateReply(i)
  \/ \E i \in Invs : WaitPoll(i)
  \/ \E i \in Invs : ExportReply(i)
  \/ SnapshotAvailable
  \/ Tick

Spec == Init /\ [][Next]_vars

\* process.env is an ordinary mutable object: code running in the process
\* between two invocations may assign one of its variables.
SetEnv ==
  /\ Cardinality({ n \in EnvNames : env[n] = Str(EnvValue2(n)) }) < MaxEnvChanges
  /\ \E n \in EnvNames :
       /\ env[n] # Str(EnvValue2(n))
       /\ env' = [env EXCEPT ![n] = Str(EnvValue2(n))]
  /\ UNCHANGED <<modA, now, ticks, kind, pc, loc, taskId, waited, trace, result,
                 snapshots, exportTasks>>

NextEnv ==
  \/ LoadModuleA
  \/ \E i \in Invs : InvokeA(i)
  \/ \E i \in Invs : ReplyA(i)
  \/ \E i \in Invs : InvokeB(i)
  \/ \E i \in Invs : CreateReply(i)
  \/ \E i \in Invs : WaitPoll(i)
  \/ \E i \in Invs : ExportReply(i)
  \/ SnapshotAvailable
  \/ Tick
  \/ SetEnv

\* Every pending downstream call eventually answers or errors, and the
\* waiter goes on polling until it settles.
SpecFair ==
  /\ Init /\ [][Next]_vars
  /\ \A i \in Invs : /\ WF_vars(CreateReply(i))
                      /\ WF_vars(WaitPoll(i))
                      /\ WF_vars(ExportReply(i))

\* The handlers in a process whose environment may be reassigned.
SpecEnv == Init /\ [][NextEnv]_vars

\* ================================================================= claims
Positions(i) == 1..Len(trace[i])
IsEv(e, op, ev) == e.op = op /\ e.ev = ev
Has(i, op, ev) == \E k \in Positions(i) : IsEv(trace[i][k], op, ev)
Before(i, k, op, ev) == \E j \in 1..(k - 1) : IsEv(trace[i][j], op, ev)
ExportOps == {"StartExportTask", "ExportDBClusterSnapshotToS3"}
SendsOf(i) == { k \in Positions(i) : trace[i][k].ev = "send" }

\* C1: in Handler B the wait starts only after the create request was
\* acknowledged, and the export request is sent only after the wait of the
\* same invocation reported the snapshot available (itself after the
\* acknowledged create).
C1_Ordering ==
  \A i \in Invs : kind[i] = "B" =>
    \A k \in Positions(i) :
      /\ IsEv(trace[i][k], "waitUntilDBClusterSnapshotAvailable", "send")
           => Before(i, k, "CreateDBClusterSnapshot", "ack")
      /\ IsEv(trace[i][k], "ExportDBClusterSnapshotToS3", "send")
           => \E j \in 1..(k - 1) :
                /\ IsEv(trace[i][j], "waitUntilDBClusterSnapshotAvailable", "ack")
                /\ Before(i, j, "CreateDBClusterSnapshot", "ack")

C1_Witness ==
  \E i \in Invs : kind[i] = "B" /\ Has(i, "ExportDBClusterSnapshotToS3", "send")

\* C2: in Handler B a failed step (create rejected, wait failed or timed
\* out, export rejected) is the last downstream event of the invocation,
\* which has then returned statusCode 500; a wait timeout is never followed
\* by an export request.
C2_FailureAborts ==
  \A i \in Invs : kind[i] = "B" =>
    \A k \in Positions(i) : trace[i][k].ev = "err" =>
      /\ k = Len(trace[i])
      /\ pc[i] = "done"
      /\ result[i].kind = "returned" /\ result[i].statusCode = 500
      /\ ~Has(i, "ExportDBClusterSnapshotToS3", "ack")
      /\ trace[i][k].op # "ExportDBClusterSnapshotToS3"
           => ~Has(i, "ExportDBClusterSnapshotToS3", "send")

C2_Witness ==
  \E i \in Invs : /\ kind[i] = "B" /\ pc[i] = "done"
                  /\ Has(i, "waitUntilDBClusterSnapshotAvailable", "err")
                  /\ result[i].body.error = <<"TIMEOUT">>

\* C3: when Handler B's export call fails after a successful create and
\* wait, the invocation returns 500, has issued no delete request, and the
\* snapshot it created is still held by the service.
C3_NoRollback ==
  \A i \in Invs : (kind[i] = "B" /\ Has(i, "ExportDBClusterSnapshotToS3", "err")) =>
    /\ result[i].statusCode = 500
    /\ \A k \in Positions(i) : trace[i][k].op # "DeleteDBClusterSnapshot"
    /\ \E s \in snapshots : s.id = Interp(loc[i].snapshotName)

C3_Witness ==
  \E i \in Invs : /\ kind[i] = "B" /\ pc[i] = "done"
                  /\ Has(i, "ExportDBClusterSnapshotToS3", "err")
                  /\ Has(i, "waitUntilDBClusterSnapshotAvailable", "ack")

\* C4: a Handler A invocation issues exactly one StartExportTask request,
\* and when the request is acknowledged it returns statusCode 200 whose body
\* carries a non-empty exportTaskIdentifier equal to the one it sent.
C4_OneCallAndId ==
  \A i \in Invs : kind[i] = "A" =>
    /\ Cardinality(SendsOf(i)) = 1
    /\ \A k \in SendsOf(i) : trace[i][k].op = "StartExportTask"
    /\ Has(i, "StartExportTask", "ack") =>
         /\ result[i].kind = "returned" /\ result[i].statusCode = 200
         /\ "exportTaskIdentifier" \in DOMAIN result[i].body
         /\ result[i].body.exportTaskIdentifier # <<>>
         /\ \A k \in SendsOf(i) :
              result[i].body.exportTaskIdentifier = trace[i][k].req.ExportTaskIdentifier.s

C4_Witness ==
  \E i \in Invs : kind[i] = "A" /\ pc[i] = "done" /\ Has(i, "StartExportTask", "ack")

\* C5: in both handlers a failed downstream call ends the invocation with a
\* returned envelope of statusCode 500; no invocation throws, and a returned
\* status code is 200 or 500.
C5_AlwaysEnvelope ==
  \A i \in Invs :
    /\ result[i].kind # "threw"
    /\ pc[i] = "done" => result[i].kind = "returned" /\ result[i].statusCode \in {200, 500}
    /\ (\E k \in Positions(i) : trace[i][k].ev = "err")
         => pc[i] = "done" /\ result[i].kind = "returned" /\ result[i].statusCode = 500

C5_Witness ==
  \E i, j \in Invs :
    /\ kind[i] = "A" /\ Has(i, "StartExportTask", "err") /\ pc[i] = "done"
    /\ kind[j] = "B" /\ Has(j, "waitUntilDBClusterSnapshotAvailable", "err") /\ pc[j] = "done"

\* C6 (as claimed): two distinct invocations of the same handler that have
\* sent an export request sent different ExportTaskIdentifier values, also
\* when both read the clock within the same millisecond.
C6_UniqueIds ==
  \A i, j \in Invs :
    (/\ i # j /\ kind[i] = kind[j]
     /\ \E op \in ExportOps : Has(i, op, "send") /\ Has(j, op, "send"))
      => taskId[i] # taskId[j]

\* C7 (as claimed): Handler A's identifier is "snapshot" followed by 14
\* digits.
C7_Form14 ==
  \A i \in Invs : (kind[i] = "A" /\ Has(i, "StartExportTask", "send")) =>
    /\ SubSeq(taskId[i], 1, Len(SnapshotPrefix)) = SnapshotPrefix
    /\ Len(taskId[i]) = Len(SnapshotPrefix) + 14
    /\ \A k \in (Len(SnapshotPrefix) + 1)..Len(taskId[i]) : IsDigit(taskId[i][k])

\* C7 (amended): Handler A's identifier is "snapshot" followed by the 17
\* digits of the UTC timestamp (year, month, day, hour, minute, second,
\* millisecond), and nothing but digits follows the prefix.
C7_Form17 ==
  \A i \in Invs : (kind[i] = "A" /\ Has(i, "StartExportTask", "send")) =>
    /\ SubSeq(taskId[i], 1, Len(SnapshotPrefix)) = SnapshotPrefix
    /\ Len(taskId[i]) = Len(SnapshotPrefix) + 17
    /\ \A k \in (Len(SnapshotPrefix) + 1)..Len(taskId[i]) : IsDigit(taskId[i][k])
    /\ \A k \in SendsOf(i) : trace[i][k].req.ExportTaskIdentifier.s = taskId[i]

C7_Witness ==
  \E i \in Invs : kind[i] = "A" /\ Has(i, "StartExportTask", "send") /\ ticks > 0

\* C8 (as claimed): when KMS_KEY_ID is not set, no export request of either
\* handler carries a KmsKeyId member.
C8_KeyOmitted ==
  \A i \in Invs : \A k \in SendsOf(i) :
    (trace[i][k].op \in ExportOps /\ ~env["KMS_KEY_ID"].def)
      => ~trace[i][k].req.KmsKeyId.def

\* The errors an invocation can meet when it is the only one the service has
\* ever seen (no snapshot, no export task).
SoloErrors(i) ==
  IF kind[i] = "A"
    THEN { a.error.name : a \in { b \in ExportAnswers({}, Str(taskId[i]), modA.SourceArn,
                                        modA.S3BucketName, modA.IamRoleArn) : ~b.ok } }
    ELSE { a.error.name : a \in { b \in CreateAnswers({}, CreateSnapshotParams(loc[i])) : ~b.ok } }
         \cup {"TIMEOUT", "FAILURE"}
         \cup { a.error.name : a \in { b \in ExportAnswers({}, Str(taskId[i]),
                                             loc[i].snapshotName, loc[i].s3BucketName,
                                             loc[i].exportIamRoleArn) : ~b.ok } }

\* C9 (as claimed): what an invocation issues and returns does not depend
\* on other invocations: a failure it returns is one that the same
\* invocation could meet when running alone.
C9_Independent ==
  \A i \in Invs : (pc[i] = "done" /\ result[i].statusCode = 500) =>
    \E n \in SoloErrors(i) : result[i].body.error = <<n>>

RequiredOf(op) ==
  CASE op = "StartExportTask" -> {"SourceArn", "S3BucketName", "IamRoleArn"}
    [] op = "ExportDBClusterSnapshotToS3" ->
         {"SourceDBClusterSnapshotIdentifier", "S3BucketName", "IamRoleArn"}
    [] OTHER -> {"DBClusterIdentifier", "DBClusterSnapshotIdentifier"}

\* C10 (as claimed): no downstream request is sent with a missing or empty
\* required field.
C10_NoMalformedRequest ==
  \A i \in Invs : \A k \in SendsOf(i) :
    \A f \in RequiredOf(trace[i][k].op) : Present(trace[i][k].req[f])

\* The export acknowledgement invocation i received (Handler B).
ExportAck(i) ==
  { trace[i][k].req : k \in { j \in Positions(i) :
                                IsEv(trace[i][j], "ExportDBClusterSnapshotToS3", "ack") } }

\* C11 (as claimed): when all three calls of Handler B succeed, the body
\* carries an exportTaskIdentifier equal to the identifier the handler
\* generated and sent, whatever the acknowledgement contains.
C11_BodyIsGeneratedId ==
  \A i \in Invs : (kind[i] = "B" /\ Has(i, "ExportDBClusterSnapshotToS3", "ack")) =>
    /\ result[i].statusCode = 200
    /\ "exportTaskIdentifier" \in DOMAIN result[i].body
    /\ result[i].body.exportTaskIdentifier = taskId[i]

\* C11 (amended): when all three calls of Handler B succeed, the response is
\* 200; the identifier sent has the form <SNAPSHOT_NAME>-export-<13-digit
\* millisecond epoch>; the body's exportTaskIdentifier is the
\* ExportTaskIdentifier of the acknowledgement: equal to the identifier sent
\* when the service echoes it, absent when the acknowledgement omits it.
C11_BodyIsAckId ==
  \A i \in Invs : (kind[i] = "B" /\ Has(i, "ExportDBClusterSnapshotToS3", "ack")) =>
    LET head == Interp(loc[i].snapshotName) \o ExportInfix IN
    /\ result[i].kind = "returned" /\ result[i].statusCode = 200
    /\ SubSeq(taskId[i], 1, Len(head)) = head
    /\ Len(taskId[i]) = Len(head) + 13
    /\ \A k \in (Len(head) + 1)..Len(taskId[i]) : IsDigit(taskId[i][k])
    /\ \A k \in SendsOf(i) : trace[i][k].op = "ExportDBClusterSnapshotToS3"
         => trace[i][k].req.ExportTaskIdentifier.s = taskId[i]
    /\ \A ack \in ExportAck(i) :
         IF ack.ExportTaskIdentifier.def
           THEN /\ "exportTaskIdentifier" \in DOMAIN result[i].body
                /\ result[i].body.exportTaskIdentifier = ack.ExportTaskIdentifier.s
                /\ result[i].body.exportTaskIdentifier = taskId[i]
           ELSE "exportTaskIdentifier" \notin DOMAIN result[i].body

C11_Witness ==
  \E i \in Invs :
    /\ kind[i] = "B" /\ pc[i] = "done" /\ result[i].statusCode = 200
    /\ "exportTaskIdentifier" \in DOMAIN result[i].body
    /\ ticks > 0

\* The environment variable a request member is taken from.
EnvOf(f) == CASE f = "SourceArn" -> "SOURCE_ARN"
              [] f = "DBClusterIdentifier" -> "DB_CLUSTER_IDENTIFIER"
              [] f \in {"DBClusterSnapshotIdentifier", "SourceDBClusterSnapshotIdentifier"}
                   -> "SNAPSHOT_NAME"
              [] f = "S3BucketName" -> "S3_BUCKET_NAME"
              [] f = "IamRoleArn" -> "IAM_ROLE_ARN"
              [] f = "KmsKeyId" -> "KMS_KEY_ID"

\* A request member carries the value e of its environment variable.
Carries(v, e) == IF Present(e) THEN v = e ELSE ~Present(v)

ConfigMembers(req) == DOMAIN req \ {"ExportTaskIdentifier"}

\* The local constant of Handler B a request member is taken from.
LocOf(l, f) == CASE EnvOf(f) = "DB_CLUSTER_IDENTIFIER" -> l.dbClusterIdentifier
                 [] EnvOf(f) = "SNAPSHOT_NAME" -> l.snapshotName
                 [] EnvOf(f) = "S3_BUCKET_NAME" -> l.s3BucketName
                 [] EnvOf(f) = "IAM_ROLE_ARN" -> l.exportIamRoleArn
                 [] EnvOf(f) = "KMS_KEY_ID" -> l.kmsKeyId

\* C12 (as claimed): the request an invocation sends on entry carries the
\* values process.env holds at that moment, also after a variable was
\* reassigned between two invocations; and the configuration an invocation
\* read does not change while it runs (its later requests carry it too).
C12_EnvAtInvocation ==
  [][\A i \in Invs :
       /\ (pc[i] = "idle" /\ pc'[i] # "idle") =>
            \A k \in 1..Len(trace'[i]) : \A f \in ConfigMembers(trace'[i][k].req) :
              Carries(trace'[i][k].req[f], env[EnvOf(f)])
       /\ (kind[i] = "B" /\ pc[i] # "idle") =>
            /\ loc'[i] = loc[i]
            /\ \A k \in 1..Len(trace'[i]) : trace'[i][k].ev = "send" =>
                 \A f \in ConfigMembers(trace'[i][k].req) :
                   Carries(trace'[i][k].req[f], LocOf(loc[i], f))]_vars

\* The same statement for Handler B alone.
C12_EnvAtInvocationB ==
  [][\A i \in Invs : kind'[i] = "B" =>
       /\ (pc[i] = "idle" /\ pc'[i] # "idle") =>
            /\ loc'[i] = ReadEnvB
            /\ \A k \in 1..Len(trace'[i]) : \A f \in ConfigMembers(trace'[i][k].req) :
                 Carries(trace'[i][k].req[f], env[EnvOf(f)])
       /\ pc[i] # "idle" =>
            /\ loc'[i] = loc[i]
            /\ \A k \in 1..Len(trace'[i]) : trace'[i][k].ev = "send" =>
                 \A f \in ConfigMembers(trace'[i][k].req) :
                   Carries(trace'[i][k].req[f], LocOf(loc[i], f))]_vars

HandlerBOps == {"CreateDBClusterSnapshot", "waitUntilDBClusterSnapshotAvailable",
                "ExportDBClusterSnapshotToS3"}

\* C13: within one Handler B invocation the create request, the wait and
\* the export request are each issued at most once, whatever the outcomes;
\* nothing else is issued.
C13_NoRetry ==
  \A i \in Invs : kind[i] = "B" =>
    /\ \A op \in HandlerBOps :
         Cardinality({ k \in SendsOf(i) : trace[i][k].op = op }) <= 1
    /\ \A k \in SendsOf(i) : trace[i][k].op \in HandlerBOps

C13_Witness ==
  \E i \in Invs :
    /\ kind[i] = "B" /\ pc[i] = "done" /\ result[i].statusCode = 500
    /\ Cardinality(SendsOf(i)) = 3

\* C14: when every downstream call eventually answers or errors and the
\* waiter gives up at its ceiling, every Handler B invocation eventually
\* returns an envelope with statusCode 200 or 500, also when the snapshot
\* never becomes available.
C14_EventuallyReturns ==
  \A i \in Invs :
    (kind[i] = "B") ~> (/\ pc[i] = "done" /\ result[i].kind = "returned"
                        /\ result[i].statusCode \in {200, 500})

C14_Witness ==
  \E i \in Invs :
    /\ kind[i] = "B" /\ pc[i] = "done" /\ result[i].kind = "returned"
    /\ result[i].body.error = <<"TIMEOUT">>
    /\ waited[i] + PollDelay > MaxWaitTime
    /\ \A s \in snapshots : s.status = "creating"

====
